---- MODULE Spec2Model ----
(***************************************************************************)
(* Identity reconciliation service (POST /identify) of src/src/index.ts.   *)
(* The Contact table is a sequence of rows indexed by id (SERIAL ids are   *)
(* 1, 2, ...).  Every SQL statement of the handler is an operator on the   *)
(* table; the handler is their composition.                                *)
(***************************************************************************)
EXTENDS Integers, Sequences, FiniteSets, TLC

\* ------------------------------------------------------------------ bounds
MaxContacts == 3
MaxDeleted == 1
MaxClients == 2         \* requests in flight at once
MaxRequests == 4        \* requests started in a concurrent run

\* ------------------------------------------------------------------ values
NULL == "NULL"          \* SQL NULL, JS null / undefined
NoId == 0               \* a null linkedid
Emails == {NULL, "", "e1"}      \* absent, empty string, a value
Phones == {NULL, "p1", "p2"}

\* JS truthiness of a string | null | undefined
Truthy(v) == v # NULL /\ v # ""

\* SQL "column = $1": never true when either side is NULL
SqlEq(col, param) == col # NULL /\ param # NULL /\ col = param

VARIABLES
    contacts,   \* the Contact table: contacts[id] is the row with that id
    now,        \* the database clock read by NOW()
    before,     \* the table as it was when the last request started
    request,    \* the body of the last request: [email, phonenumber]
    response,   \* the response sent for the last request
    pc,         \* pc[p]: the await the handler run for client p is at
    local,      \* local[p]: the local variables of that run
    started     \* the number of requests received by the concurrent server

vars == <<contacts, now, before, request, response, pc, local, started>>

seqVars == <<before, request, response>>

concVars == <<pc, local, started>>

\* ------------------------------------------------------------------ helpers
Ids(store) == 1..Len(store)

Range(s) == {s[i] : i \in 1..Len(s)}

Map(s, Op(_)) == [i \in 1..Len(s) |-> Op(s[i])]

\* [...new Set(xs)]: duplicates dropped, first occurrence kept
RECURSIVE Dedupe(_)
Dedupe(s) ==
    IF s = <<>> THEN <<>>
    ELSE LET d == Dedupe(SubSeq(s, 1, Len(s) - 1))
             x == s[Len(s)]
         IN  IF x \in Range(d) THEN d ELSE Append(d, x)

\* (mutant) the comparator reversed: b.createdat - a.createdat
RECURSIVE M_SortNewestFirst(_)
M_SortNewestFirst(s) ==
    IF s = <<>> THEN <<>>
    ELSE LET h == Head(s)
             rest == M_SortNewestFirst(Tail(s))
         IN  SelectSeq(rest, LAMBDA c : c.createdat > h.createdat)
             \o <<h>>
             \o SelectSeq(rest, LAMBDA c : c.createdat <= h.createdat)

\* Array.prototype.sort((a, b) => a.createdat - b.createdat): a stable sort
RECURSIVE SortByCreatedAt(_)
SortByCreatedAt(s) ==
    IF s = <<>> THEN <<>>
    ELSE LET h == Head(s)
             rest == SortByCreatedAt(Tail(s))
         IN  SelectSeq(rest, LAMBDA c : c.createdat < h.createdat)
             \o <<h>>
             \o SelectSeq(rest, LAMBDA c : c.createdat >= h.createdat)

\* ------------------------------------------------------------------ store
\* No query of the program has an ORDER BY: the order of its rows is the
\* store's choice.  The orders explored are ascending and descending id.
AscendingId == [i \in 1..MaxContacts |-> i]

DescendingId == [i \in 1..MaxContacts |-> MaxContacts + 1 - i]

ScanOrders == {AscendingId, DescendingId}

\* The rows of the table in the order a scan returns them.  ord is a
\* sequence of distinct ids; ids not (yet) in the table are skipped.
Scan(store, ord) ==
    LET o == SelectSeq(ord, LAMBDA i : i \in Ids(store))
    IN  [k \in 1..Len(o) |-> store[o[k]]]

\* (mutant) JS equality instead of SQL equality: null matches null
M_Find_NullMatchesNull(store, ord, email, phone) ==
    IF ~Truthy(email) /\ ~Truthy(phone) THEN <<>>
    ELSE SelectSeq(Scan(store, ord),
                   LAMBDA c : (c.email = email \/ c.phonenumber = phone) /\ ~c.deleted)

\* (mutant) the query without "AND deletedat IS NULL"
M_Find_SeesDeleted(store, ord, email, phone) ==
    IF ~Truthy(email) /\ ~Truthy(phone) THEN <<>>
    ELSE SelectSeq(Scan(store, ord),
                   LAMBDA c : SqlEq(c.email, email) \/ SqlEq(c.phonenumber, phone))

FindContactsByEmailOrPhone(store, ord, email, phone) ==
    IF ~Truthy(email) /\ ~Truthy(phone) THEN <<>>
    ELSE SelectSeq(Scan(store, ord),
                   LAMBDA c : (SqlEq(c.email, email) \/ SqlEq(c.phonenumber, phone))
                              /\ ~c.deleted)

CreateContact(store, email, phonenumber, linkedid, linkprecedence, t) ==
    Append(store, [id |-> Len(store) + 1,
                   email |-> email,
                   phonenumber |-> phonenumber,
                   linkedid |-> linkedid,
                   linkprecedence |-> linkprecedence,
                   createdat |-> t,
                   deleted |-> FALSE])

\* (mutant) the UPDATE of a demotion also blanks the row's email and phone
M_UpdateContact_BlanksValues(store, id, linkedid, linkprecedence) ==
    [i \in Ids(store) |->
        IF store[i].id = id
        THEN [store[i] EXCEPT !.linkedid = linkedid, !.linkprecedence = linkprecedence,
                              !.email = NULL, !.phonenumber = NULL]
        ELSE store[i]]

\* (mutant) the UPDATE flips the precedence of the row: a row that is already
\* a secondary is made a primary again
M_UpdateContact_Flips(store, id, linkedid, linkprecedence) ==
    [i \in Ids(store) |->
        IF store[i].id = id
        THEN IF store[i].linkprecedence = "primary"
             THEN [store[i] EXCEPT !.linkedid = linkedid, !.linkprecedence = "secondary"]
             ELSE [store[i] EXCEPT !.linkedid = NoId, !.linkprecedence = "primary"]
        ELSE store[i]]

UpdateContact(store, id, linkedid, linkprecedence) ==
    [i \in Ids(store) |->
        IF store[i].id = id
        THEN [store[i] EXCEPT !.linkedid = linkedid, !.linkprecedence = linkprecedence]
        ELSE store[i]]

\* (mutant) the secondaries of a demoted primary are left pointing at it
M_UpdateSecondaryLinks_Skipped(store, oldPrimaryId, newPrimaryId) == store

UpdateSecondaryLinks(store, oldPrimaryId, newPrimaryId) ==
    [i \in Ids(store) |->
        IF store[i].linkedid # NoId /\ store[i].linkedid = oldPrimaryId
        THEN [store[i] EXCEPT !.linkedid = newPrimaryId]
        ELSE store[i]]

GetAllContactsLinkedToPrimary(store, ord, primaryId) ==
    SelectSeq(Scan(store, ord),
              LAMBDA c : (c.id = primaryId \/ c.linkedid = primaryId) /\ ~c.deleted)

\* SELECT * FROM Contact WHERE id = ANY($1) AND deletedat IS NULL
PrimaryQuery(store, ord, idSet) ==
    SelectSeq(Scan(store, ord), LAMBDA c : c.id \in idSet /\ ~c.deleted)

\* ------------------------------------------------------------------ responses
NoResponse == [status |-> 0, primaryContactId |-> NoId, emails |-> <<>>,
               phoneNumbers |-> <<>>, secondaryContactIds |-> <<>>]

ServerError == [status |-> 500, primaryContactId |-> NoId, emails |-> <<>>,
                phoneNumbers |-> <<>>, secondaryContactIds |-> <<>>]

Ok(primaryContactId, emails, phoneNumbers, secondaryContactIds) ==
    [status |-> 200, primaryContactId |-> primaryContactId, emails |-> emails,
     phoneNumbers |-> phoneNumbers, secondaryContactIds |-> secondaryContactIds]

GetAllEmails(cs) ==
    Dedupe(SelectSeq(Map(cs, LAMBDA c : c.email), LAMBDA e : e # NULL))

GetAllPhones(cs) ==
    Dedupe(SelectSeq(Map(cs, LAMBDA c : c.phonenumber), LAMBDA p : p # NULL))

\* contacts.find(primary)! is undefined when there is none: primary.id throws
BuildResponse(cs) ==
    LET primaries == SelectSeq(cs, LAMBDA c : c.linkprecedence = "primary")
        secondaries == SelectSeq(cs, LAMBDA c : c.linkprecedence = "secondary")
    IN  IF primaries = <<>> THEN ServerError
        ELSE Ok(primaries[1].id, GetAllEmails(cs), GetAllPhones(cs),
                Map(secondaries, LAMBDA s : s.id))

\* the response of the no-match path: [x].filter(v => v)
NewContactResponse(newContact) ==
    Ok(newContact.id,
       IF Truthy(newContact.email) THEN <<newContact.email>> ELSE <<>>,
       IF Truthy(newContact.phonenumber) THEN <<newContact.phonenumber>> ELSE <<>>,
       <<>>)

\* ------------------------------------------------------------------ handler
\* (mutant) only the matched rows that are primaries are candidates: the
\* linkedid of a matched secondary is not followed
M_PrimaryIdSet_MatchedPrimariesOnly(existingContacts) ==
    {c.id : c \in {x \in Range(existingContacts) : x.linkprecedence = "primary"}}

PrimaryIdSet(existingContacts) ==
    {c.id : c \in {x \in Range(existingContacts) : x.linkprecedence = "primary"}}
    \cup {c.linkedid : c \in {x \in Range(existingContacts) :
                                x.linkprecedence # "primary" /\ x.linkedid # NoId}}

\* (mutant) the known values are those of the fetched primaries alone
M_AllContacts_PrimariesOnly(existingContacts, primaryContactsFromDb) ==
    primaryContactsFromDb

\* new Map over [...existingContacts, ...primaryContactsFromDb]: a key keeps
\* the position of its first insertion and the value of its last
AllContacts(existingContacts, primaryContactsFromDb) ==
    LET both == existingContacts \o primaryContactsFromDb
        keys == Dedupe(Map(both, LAMBDA c : c.id))
        Last(id) == both[CHOOSE i \in 1..Len(both) :
                            both[i].id = id
                            /\ \A j \in 1..Len(both) : both[j].id = id => j <= i]
    IN  Map(keys, Last)

\* (mutant) the primaries are taken in the order they were read, unsorted
M_AllPrimaryContacts_Unsorted(allContacts) ==
    SelectSeq(allContacts, LAMBDA c : c.linkprecedence = "primary")

AllPrimaryContacts(allContacts) ==
    SortByCreatedAt(SelectSeq(allContacts, LAMBDA c : c.linkprecedence = "primary"))

\* the merge loop: demote allPrimaryContacts[i..] under the ultimate primary
RECURSIVE Merge(_, _, _, _)
Merge(store, allPrimaryContacts, ultimateId, i) ==
    IF i > Len(allPrimaryContacts) THEN store
    ELSE LET primaryToDemote == allPrimaryContacts[i]
             s1 == UpdateContact(store, primaryToDemote.id, ultimateId, "secondary")
             s2 == UpdateSecondaryLinks(s1, primaryToDemote.id, ultimateId)
         IN  Merge(s2, allPrimaryContacts, ultimateId, i + 1)

\* (mutant) every submitted value is stored again, known or not
M_IsNew_AnyValue(value, known) == Truthy(value)

IsNew(value, known) == Truthy(value) /\ value \notin Range(known)

\* app.post('/identify'): the table and the response it leaves
Identify(store, email, phonenumber, ord, t) ==
    LET existingContacts == FindContactsByEmailOrPhone(store, ord, email, phonenumber)
    IN
    IF Len(existingContacts) = 0
    THEN LET s1 == CreateContact(store, email, phonenumber, NoId, "primary", t)
         IN  [contacts |-> s1, response |-> NewContactResponse(s1[Len(s1)])]
    ELSE
    LET primaryIdSet == PrimaryIdSet(existingContacts)
        primaryContactsFromDb ==
            IF primaryIdSet # {} THEN PrimaryQuery(store, ord, primaryIdSet) ELSE <<>>
        allContacts == AllContacts(existingContacts, primaryContactsFromDb)
        allPrimaryContacts == AllPrimaryContacts(allContacts)
    IN
    IF allPrimaryContacts = <<>>
    THEN \* ultimatePrimary is undefined: ultimatePrimary.id throws before any write
         [contacts |-> store, response |-> ServerError]
    ELSE
    LET ultimatePrimary == allPrimaryContacts[1]
        s1 == Merge(store, allPrimaryContacts, ultimatePrimary.id, 2)
        isNewEmail == IsNew(email, GetAllEmails(allContacts))
        isNewPhone == IsNew(phonenumber, GetAllPhones(allContacts))
        s2 == IF isNewEmail \/ isNewPhone
              THEN CreateContact(s1, IF isNewEmail THEN email ELSE NULL,
                                 IF isNewPhone THEN phonenumber ELSE NULL,
                                 ultimatePrimary.id, "secondary", t)
              ELSE s1
        finalContacts == GetAllContactsLinkedToPrimary(s2, ord, ultimatePrimary.id)
    IN  [contacts |-> s2, response |-> BuildResponse(finalContacts)]

\* ------------------------------------------------------------------ actions
NoRequest == [email |-> NULL, phonenumber |-> NULL]

Clients == 1..MaxClients

NoLocal == [req |-> NoRequest, fresh |-> FALSE, existingContacts |-> <<>>,
            allContacts |-> <<>>, allPrimaryContacts |-> <<>>, i |-> 0,
            response |-> NoResponse]

Init ==
    /\ contacts = <<>>
    /\ now = 0
    /\ before = <<>>
    /\ request = NoRequest
    /\ response = NoResponse
    /\ pc = [p \in Clients |-> "idle"]
    /\ local = [p \in Clients |-> NoLocal]
    /\ started = 0

Requests == [email : Emails, phonenumber : Phones]

\* One /identify request, run to completion before the next one starts.  Each
\* INSERT reads a later NOW() than every earlier one.
IdentifyRequest(requests) ==
    \E req \in requests, ord \in ScanOrders :
    \E out \in {Identify(contacts, req.email, req.phonenumber, ord, now + 1)} :
        /\ Len(out.contacts) <= MaxContacts
        /\ contacts' = out.contacts
        /\ now' = IF Len(out.contacts) > Len(contacts) THEN now + 1 ELSE now
        /\ before' = contacts
        /\ request' = req
        /\ response' = out.response
        /\ UNCHANGED concVars

\* deletedat is set from outside the service (no statement of the program
\* writes it); what the last request answered no longer describes the table
SoftDelete ==
    \E id \in Ids(contacts) :
        /\ ~contacts[id].deleted
        /\ Cardinality({i \in Ids(contacts) : contacts[i].deleted}) < MaxDeleted
        /\ contacts' = [contacts EXCEPT ![id].deleted = TRUE]
        /\ before' = contacts'
        /\ request' = NoRequest
        /\ response' = NoResponse
        /\ UNCHANGED <<now, concVars>>

\* any sequence of requests, whatever their bodies
Next == IdentifyRequest(Requests)

Spec == Init /\ [][Next]_vars

\* only requests that carry a non-empty email or a non-empty phone
NextValid ==
    IdentifyRequest({r \in Requests : Truthy(r.email) \/ Truthy(r.phonenumber)})

SpecValid == Init /\ [][NextValid]_vars

\* requests, and contacts soft-deleted between them
NextDel == IdentifyRequest(Requests) \/ SoftDelete

SpecDel == Init /\ [][NextDel]_vars

\* ------------------------------------------------------------------ concurrency
\* The handler one await at a time: every SQL statement is one atomic step,
\* and the steps of the requests in flight interleave freely.  Every INSERT
\* reads a later NOW() than the one before it, and the scans return the rows
\* by ascending id: with distinct createdat values the order of the rows
\* decides nothing but the order of the lists of a response.
ValidRequests == {r \in Requests : Truthy(r.email) \/ Truthy(r.phonenumber)}

\* the request arrives: const { email, phonenumber } = req.body
Start(p) ==
    \E req \in ValidRequests :
        /\ pc[p] \in {"idle", "done"}
        /\ started < MaxRequests
        /\ started' = started + 1
        /\ pc' = [pc EXCEPT ![p] = "find"]
        /\ local' = [local EXCEPT ![p] =
              [NoLocal EXCEPT !.req = req,
                              !.fresh = \A c \in Range(contacts) :
                                            ~c.deleted =>
                                                /\ ~SqlEq(c.email, req.email)
                                                /\ ~SqlEq(c.phonenumber, req.phonenumber)]]
        /\ UNCHANGED <<contacts, now, seqVars>>

\* await findContactsByEmailOrPhone(email, phonenumber)
Find(p) ==
    \E ord \in {AscendingId} :
        /\ pc[p] = "find"
        /\ LET found == FindContactsByEmailOrPhone(contacts, ord, local[p].req.email,
                                                   local[p].req.phonenumber)
           IN  /\ local' = [local EXCEPT ![p].existingContacts = found]
               /\ pc' = [pc EXCEPT ![p] = IF Len(found) = 0 THEN "createPrimary"
                                          ELSE "fetchPrimaries"]
        /\ UNCHANGED <<contacts, now, started, seqVars>>

\* await createContact({ email, phonenumber, linkprecedence: 'primary' })
CreatePrimary(p) ==
    \E t \in {now + 1} :
        /\ pc[p] = "createPrimary"
        /\ Len(contacts) < MaxContacts
        /\ contacts' = CreateContact(contacts, local[p].req.email,
                                     local[p].req.phonenumber, NoId, "primary", t)
        /\ now' = t
        /\ local' = [local EXCEPT ![p].response =
                                    NewContactResponse(contacts'[Len(contacts')])]
        /\ pc' = [pc EXCEPT ![p] = "done"]
        /\ UNCHANGED <<started, seqVars>>

\* where the handler goes once the merge loop is over
AfterMerge(l) ==
    IF \/ IsNew(l.req.email, GetAllEmails(l.allContacts))
       \/ IsNew(l.req.phonenumber, GetAllPhones(l.allContacts))
    THEN "createSecondary" ELSE "final"

\* await pool.query(primaryQuery, [Array.from(primaryIdSet)]), then the
\* synchronous code up to the next await
FetchPrimaries(p) ==
    \E ord \in {AscendingId} :
        /\ pc[p] = "fetchPrimaries"
        /\ LET primaryIdSet == PrimaryIdSet(local[p].existingContacts)
               primaryContactsFromDb ==
                   IF primaryIdSet # {} THEN PrimaryQuery(contacts, ord, primaryIdSet)
                   ELSE <<>>
               allContacts == AllContacts(local[p].existingContacts,
                                          primaryContactsFromDb)
               allPrimaryContacts == AllPrimaryContacts(allContacts)
               l == [local[p] EXCEPT !.existingContacts = <<>>,
                                     !.allContacts = allContacts,
                                     !.allPrimaryContacts = allPrimaryContacts,
                                     !.i = 2]
           IN  IF allPrimaryContacts = <<>>
               THEN \* ultimatePrimary.id throws: the catch answers 500
                    /\ local' = [local EXCEPT ![p] =
                                   [NoLocal EXCEPT !.req = local[p].req,
                                                   !.fresh = local[p].fresh,
                                                   !.response = ServerError]]
                    /\ pc' = [pc EXCEPT ![p] = "done"]
               ELSE /\ local' = [local EXCEPT ![p] = l]
                    /\ pc' = [pc EXCEPT ![p] =
                                 IF Len(allPrimaryContacts) > 1 THEN "demote"
                                 ELSE AfterMerge(l)]
        /\ UNCHANGED <<contacts, now, started, seqVars>>

\* await updateContact(primaryToDemote.id, { linkedid, linkprecedence })
Demote(p) ==
    /\ pc[p] = "demote"
    /\ contacts' = UpdateContact(contacts,
                                 local[p].allPrimaryContacts[local[p].i].id,
                                 local[p].allPrimaryContacts[1].id, "secondary")
    /\ pc' = [pc EXCEPT ![p] = "repoint"]
    /\ UNCHANGED <<now, local, started, seqVars>>

\* await updateSecondaryLinks(primaryToDemote.id, ultimatePrimary.id)
Repoint(p) ==
    /\ pc[p] = "repoint"
    /\ contacts' = UpdateSecondaryLinks(contacts,
                                        local[p].allPrimaryContacts[local[p].i].id,
                                        local[p].allPrimaryContacts[1].id)
    /\ local' = [local EXCEPT ![p].i = @ + 1]
    /\ pc' = [pc EXCEPT ![p] =
                 IF local[p].i + 1 <= Len(local[p].allPrimaryContacts) THEN "demote"
                 ELSE AfterMerge(local[p])]
    /\ UNCHANGED <<now, started, seqVars>>

\* await createContact({ ..., linkedid: ultimatePrimary.id, 'secondary' })
CreateSecondary(p) ==
    \E t \in {now + 1} :
        /\ pc[p] = "createSecondary"
        /\ Len(contacts) < MaxContacts
        /\ LET l == local[p]
               isNewEmail == IsNew(l.req.email, GetAllEmails(l.allContacts))
               isNewPhone == IsNew(l.req.phonenumber, GetAllPhones(l.allContacts))
           IN  contacts' = CreateContact(contacts,
                                         IF isNewEmail THEN l.req.email ELSE NULL,
                                         IF isNewPhone THEN l.req.phonenumber ELSE NULL,
                                         l.allPrimaryContacts[1].id, "secondary", t)
        /\ now' = t
        /\ pc' = [pc EXCEPT ![p] = "final"]
        /\ UNCHANGED <<local, started, seqVars>>

\* await getAllContactsLinkedToPrimary(ultimatePrimary.id); buildResponse
Final(p) ==
    \E ord \in {AscendingId} :
        /\ pc[p] = "final"
        /\ local' = [local EXCEPT ![p] =
              [NoLocal EXCEPT !.req = local[p].req,
                              !.fresh = local[p].fresh,
                              !.response = BuildResponse(
                                  GetAllContactsLinkedToPrimary(
                                      contacts, ord,
                                      local[p].allPrimaryContacts[1].id))]]
        /\ pc' = [pc EXCEPT ![p] = "done"]
        /\ UNCHANGED <<contacts, now, started, seqVars>>

NextConc ==
    \E p \in Clients :
        \/ Start(p)
        \/ Find(p)
        \/ CreatePrimary(p)
        \/ FetchPrimaries(p)
        \/ Demote(p)
        \/ Repoint(p)
        \/ CreateSecondary(p)
        \/ Final(p)

SpecConc == Init /\ [][NextConc]_vars

\* ------------------------------------------------------------------ vocabulary
\* The words of the properties below, on a table and a request.
Live(store) == {c \in Range(store) : ~c.deleted}

IsPrimary(c) == c.linkprecedence = "primary"

IsSecondary(c) == c.linkprecedence = "secondary"

\* the id of the primary of the cluster a contact belongs to
PrimaryOf(c) == IF IsPrimary(c) THEN c.id ELSE c.linkedid

Cluster(store, primaryId) == {c \in Live(store) : PrimaryOf(c) = primaryId}

\* a contact has the request's email or the request's phone
Has(c, req) == SqlEq(c.email, req.email) \/ SqlEq(c.phonenumber, req.phonenumber)

Matched(store, req) == {c \in Live(store) : Has(c, req)}

\* the primaries of the clusters the request's values are found in
Touched(store, req) == {PrimaryOf(c) : c \in Matched(store, req)}

TouchedMembers(store, req) ==
    {c \in Live(store) : PrimaryOf(c) \in Touched(store, req)}

\* the request carries at least one non-empty value (section 6 of the spec)
ValidRequest(req) == Truthy(req.email) \/ Truthy(req.phonenumber)

\* a request has run and its response describes the table
Acted == response.status # 0

Oldest(store, ids) ==
    CHOOSE a \in ids : \A b \in ids : store[a].createdat <= store[b].createdat

NonEmpty(values) == {v \in values : Truthy(v)}

NoDuplicates(s) == \A i, j \in 1..Len(s) : s[i] = s[j] => i = j

Demoted(id) ==
    id \in Ids(before) /\ IsPrimary(before[id]) /\ IsSecondary(contacts[id])

Inserted == Len(contacts) = Len(before) + 1

\* ------------------------------------------------------------------ properties
\* Every live primary has a null linkedid; every live secondary's linkedid is
\* the id of a live contact that is a primary
DepthOne(store) ==
    \A c \in Live(store) :
        /\ IsPrimary(c) => c.linkedid = NoId
        /\ IsSecondary(c) =>
              /\ c.linkedid \in Ids(store)
              /\ store[c.linkedid] \in Live(store)
              /\ IsPrimary(store[c.linkedid])

\* C1: after any sequence of requests run one after the other, every contact
\* is in exactly one cluster, which has exactly one primary, and links have
\* depth one; when the last request demoted a primary B, every contact that
\* pointed at B points at B's new primary.
C1_OneClusterDepthOne ==
    /\ DepthOne(contacts)
    /\ \A c \in Live(contacts) :
          Cardinality({p \in Live(contacts) :
                          IsPrimary(p) /\ c \in Cluster(contacts, p.id)}) = 1
    /\ \A b \in Ids(before) :
          Demoted(b) =>
              \A c \in Ids(before) :
                  before[c].linkedid = b =>
                      /\ contacts[c].linkedid = contacts[b].linkedid
                      /\ IsPrimary(contacts[contacts[b].linkedid])

\* a primary that had a secondary of its own has been demoted
C1_Witness ==
    \E b, c \in Ids(before) : Demoted(b) /\ before[c].linkedid = b

\* C2: when the values of a request with a non-empty value are found in two
\* or more clusters, the touched primary created first stays primary, every
\* other touched primary becomes a secondary linked to it, and the response
\* names it as primaryContactId and every demoted primary in
\* secondaryContactIds.
C2_OldestPrimaryWins ==
    (Acted /\ ValidRequest(request) /\ Cardinality(Touched(before, request)) >= 2) =>
        LET a == Oldest(before, Touched(before, request))
        IN  /\ IsPrimary(contacts[a])
            /\ response.status = 200
            /\ response.primaryContactId = a
            /\ \A b \in Touched(before, request) \ {a} :
                  /\ before[a].createdat < before[b].createdat
                  /\ IsSecondary(contacts[b])
                  /\ contacts[b].linkedid = a
                  /\ b \in Range(response.secondaryContactIds)

C2_Witness ==
    /\ Acted /\ ValidRequest(request)
    /\ Cardinality(Touched(before, request)) >= 2
    /\ \E b \in Ids(before) : Demoted(b)

\* C3: the primary of a cluster was created no later than any other member
C3_PrimaryIsOldest ==
    \A c \in Live(contacts) :
        IsSecondary(c) => contacts[c.linkedid].createdat <= c.createdat

\* a cluster that holds a demoted primary and a contact created after it
C3_Witness ==
    \E b \in Ids(before), c \in Ids(contacts) :
        /\ Demoted(b)
        /\ c # b /\ IsSecondary(contacts[c])
        /\ contacts[c].linkedid = contacts[b].linkedid

\* two responses that differ at most in the order of their lists
SameAnswer(r1, r2) ==
    /\ r1.status = r2.status
    /\ r1.primaryContactId = r2.primaryContactId
    /\ Len(r1.emails) = Len(r2.emails)
    /\ Range(r1.emails) = Range(r2.emails)
    /\ Len(r1.phoneNumbers) = Len(r2.phoneNumbers)
    /\ Range(r1.phoneNumbers) = Range(r2.phoneNumbers)
    /\ Len(r1.secondaryContactIds) = Len(r2.secondaryContactIds)
    /\ Range(r1.secondaryContactIds) = Range(r2.secondaryContactIds)

\* C4: idempotence: the request that has just been answered, run again at
\* once, writes nothing and is answered as before (up to the order of the
\* lists).  Stated for requests that carry a non-empty value.
C4_Idempotent ==
    (Acted /\ ValidRequest(request)) =>
        \A ord \in ScanOrders :
            LET again == Identify(contacts, request.email, request.phonenumber,
                                  ord, now + 1)
            IN  /\ again.contacts = contacts
                /\ SameAnswer(again.response, response)

\* C5: when no live contact has the request's email or the request's phone,
\* exactly one row is inserted, a primary with a null linkedid and exactly the
\* submitted email and phone; no other row changes; the response names the new
\* id, holds exactly the submitted non-empty values and no secondary.
C5_NoMatchCreatesPrimary ==
    (Acted /\ Matched(before, request) = {}) =>
        /\ Inserted
        /\ SubSeq(contacts, 1, Len(before)) = before
        /\ LET new == contacts[Len(contacts)]
           IN  /\ new.id = Len(before) + 1
               /\ IsPrimary(new)
               /\ new.linkedid = NoId
               /\ new.email = request.email
               /\ new.phonenumber = request.phonenumber
               /\ ~new.deleted
               /\ response =
                    Ok(new.id,
                       IF Truthy(request.email) THEN <<request.email>> ELSE <<>>,
                       IF Truthy(request.phonenumber)
                       THEN <<request.phonenumber>> ELSE <<>>,
                       <<>>)

\* a request with a non-empty value that matches nothing in a non-empty table
C5_Witness ==
    /\ Acted /\ ValidRequest(request)
    /\ before # <<>>
    /\ Matched(before, request) = {}
    /\ Inserted

\* the request carries a non-empty email (phone) no touched cluster holds
NewEmail ==
    /\ Truthy(request.email)
    /\ \A c \in TouchedMembers(before, request) : c.email # request.email

NewPhone ==
    /\ Truthy(request.phonenumber)
    /\ \A c \in TouchedMembers(before, request) : c.phonenumber # request.phonenumber

\* C6: when a request matches a cluster and carries a non-empty email or phone
\* that no member of the touched clusters has, exactly one row is inserted, a
\* secondary linked to the ultimate primary that stores only the new value(s)
\* (the known field is null); the response holds the old and the new values
\* and lists the new id in secondaryContactIds.
C6_NewInformationLinked ==
    (Acted /\ ValidRequest(request) /\ Matched(before, request) # {}
     /\ (NewEmail \/ NewPhone)) =>
        /\ Inserted
        /\ LET new == contacts[Len(contacts)]
               a == Oldest(before, Touched(before, request))
           IN  /\ new.id = Len(before) + 1
               /\ IsSecondary(new)
               /\ new.linkedid = a
               /\ new.email = IF NewEmail THEN request.email ELSE NULL
               /\ new.phonenumber = IF NewPhone THEN request.phonenumber ELSE NULL
               /\ response.status = 200
               /\ response.primaryContactId = a
               /\ new.id \in Range(response.secondaryContactIds)
               /\ NonEmpty({request.email}) \subseteq Range(response.emails)
               /\ NonEmpty({request.phonenumber}) \subseteq Range(response.phoneNumbers)
               /\ \A c \in TouchedMembers(before, request) :
                     /\ c.email # NULL => c.email \in Range(response.emails)
                     /\ c.phonenumber # NULL =>
                           c.phonenumber \in Range(response.phoneNumbers)

\* a new phone arrives with a known email, and the cluster had a phone already
C6_Witness ==
    /\ Acted /\ Matched(before, request) # {}
    /\ NewPhone /\ ~NewEmail /\ Truthy(request.email)
    /\ Inserted
    /\ Len(response.phoneNumbers) >= 2

\* C7: in a successful response emails and phoneNumbers are duplicate-free
\* and are, as sets, the non-empty emails and phones of the live members of
\* the cluster of primaryContactId; secondaryContactIds are the ids of its
\* members other than the primary; the submitted non-empty values are among
\* the values returned.
C7_ResponseIsClusterUnion ==
    response.status = 200 =>
        LET members == Cluster(contacts, response.primaryContactId)
        IN  /\ NoDuplicates(response.emails)
            /\ NoDuplicates(response.phoneNumbers)
            /\ Range(response.emails) = NonEmpty({c.email : c \in members})
            /\ Range(response.phoneNumbers) =
                  NonEmpty({c.phonenumber : c \in members})
            /\ Range(response.secondaryContactIds) =
                  {c.id : c \in {m \in members : ~IsPrimary(m)}}
            /\ NonEmpty({request.email}) \subseteq Range(response.emails)
            /\ NonEmpty({request.phonenumber}) \subseteq Range(response.phoneNumbers)

\* C9: a request with neither a non-empty email nor a non-empty phone is
\* answered with a client error and leaves the table as it was.
C9_EmptyRequestRejected ==
    (Acted /\ ~ValidRequest(request)) =>
        /\ response.status \in 400..499
        /\ contacts = before

\* the table with the email and phone of every deleted row blanked
Scrub(store) ==
    [i \in Ids(store) |->
        IF store[i].deleted
        THEN [store[i] EXCEPT !.email = NULL, !.phonenumber = NULL]
        ELSE store[i]]

\* C8: a deleted contact is never a match and gives no response its id,
\* email or phone: the ids of a response are ids of live contacts, its values
\* are values of live contacts, the response and the live rows are those the
\* request yields on the table with the deleted rows' values blanked, and a
\* request whose values only deleted contacts have creates a new primary.
C8_DeletedContactsInvisible ==
    Acted =>
        /\ \A id \in {response.primaryContactId} \cup Range(response.secondaryContactIds) :
              id # NoId => contacts[id] \in Live(contacts)
        /\ Range(response.emails) \subseteq {c.email : c \in Live(contacts)}
        /\ Range(response.phoneNumbers) \subseteq {c.phonenumber : c \in Live(contacts)}
        /\ \E ord \in ScanOrders :
              LET blank == Identify(Scrub(before), request.email, request.phonenumber,
                                    ord, now)
              IN  /\ blank.response = response
                  /\ Live(blank.contacts) = Live(contacts)
        /\ Matched(before, request) = {} =>
              /\ Inserted
              /\ IsPrimary(contacts[Len(contacts)])
              /\ response.primaryContactId = Len(contacts)
              /\ response.secondaryContactIds = <<>>

\* the request's values are held by a deleted contact and by a live one
C8_Witness ==
    /\ Acted /\ response.status = 200
    /\ Matched(before, request) # {}
    /\ \E d \in Range(before) : d.deleted /\ Has(d, request)

\* C10: two requests in flight together that carry the same values, neither
\* of which any contact had when they arrived, leave exactly one primary
\* contact holding those values.
C10_OnePrimaryForSameValues ==
    \A p, q \in Clients :
        (/\ p # q
         /\ pc[p] = "done" /\ pc[q] = "done"
         /\ local[p].req = local[q].req
         /\ local[p].fresh /\ local[q].fresh) =>
            Cardinality({c \in Live(contacts) :
                            /\ IsPrimary(c)
                            /\ c.email = local[p].req.email
                            /\ c.phonenumber = local[p].req.phonenumber}) = 1

\* no request is in flight
Quiescent == \A p \in Clients : pc[p] \in {"idle", "done"}

\* C11: whatever the interleaving of the statements of concurrent requests,
\* once every request has completed no secondary points at a secondary and
\* every contact has exactly one primary.
C11_ConcurrentDepthOne ==
    Quiescent =>
        /\ DepthOne(contacts)
        /\ \A c \in Live(contacts) :
              Cardinality({p \in Live(contacts) :
                              IsPrimary(p) /\ c \in Cluster(contacts, p.id)}) = 1

\* ------------------------------------------------------------------ failures
\* One request at a time, any of whose awaited queries may reject.
\* A request arrives while no other is in flight; before is the table it finds.
Receive(p) ==
    \E req \in ValidRequests :
        /\ Quiescent
        /\ started < MaxRequests
        /\ started' = started + 1
        /\ pc' = [pc EXCEPT ![p] = "find"]
        /\ local' = [local EXCEPT ![p] = [NoLocal EXCEPT !.req = req]]
        /\ before' = contacts
        /\ request' = req
        /\ response' = NoResponse
        /\ UNCHANGED <<contacts, now>>

\* the awaited pool.query rejects: the statement writes nothing, the catch
\* block logs the error and answers 500
Fail(p) ==
    /\ pc[p] \in {"find", "createPrimary", "fetchPrimaries", "demote", "repoint",
                  "createSecondary", "final"}
    /\ local' = [local EXCEPT ![p] = [NoLocal EXCEPT !.req = local[p].req,
                                                     !.response = ServerError]]
    /\ pc' = [pc EXCEPT ![p] = "done"]
    /\ UNCHANGED <<contacts, now, started, seqVars>>

NextFail ==
    \E p \in Clients :
        \/ Receive(p)
        \/ Find(p)
        \/ CreatePrimary(p)
        \/ FetchPrimaries(p)
        \/ Demote(p)
        \/ Repoint(p)
        \/ CreateSecondary(p)
        \/ Final(p)
        \/ Fail(p)

SpecFail == Init /\ [][NextFail]_vars

\* C12: a request one of whose database steps failed has ended with a server
\* error and has left the table exactly as it found it.
C12_FailureLeavesNoWrite ==
    \A p \in Clients :
        (pc[p] = "done" /\ local[p].req = request /\ local[p].response.status = 500
         /\ \A q \in Clients \ {p} : pc[q] = "idle" \/ local[q].req # request) =>
            contacts = before

AllContactsOf(ord) ==
    LET existingContacts == FindContactsByEmailOrPhone(before, ord, request.email,
                                                       request.phonenumber)
    IN  AllContacts(existingContacts,
                    PrimaryQuery(before, ord, PrimaryIdSet(existingContacts)))

\* C14: for a request that matches, the decision the handler takes from the
\* matched contacts and the fetched primaries is the decision taken from all
\* members of the touched clusters: isNewEmail (isNewPhone) is true exactly
\* when the email (phone) is non-empty and no such member has it, a secondary
\* is inserted exactly when one of the two is true, and no row otherwise.
C14_NewInformationDecision ==
    (Acted /\ ValidRequest(request) /\ Matched(before, request) # {}) =>
        /\ \A ord \in ScanOrders :
              /\ IsNew(request.email, GetAllEmails(AllContactsOf(ord))) <=> NewEmail
              /\ IsNew(request.phonenumber, GetAllPhones(AllContactsOf(ord))) <=> NewPhone
        /\ Inserted <=> (NewEmail \/ NewPhone)
        /\ Inserted => IsSecondary(contacts[Len(contacts)])
        /\ ~Inserted => Len(contacts) = Len(before)

\* no row is inserted for a phone that only a secondary of the cluster has
C14_Witness ==
    /\ Acted /\ ValidRequest(request) /\ Matched(before, request) # {}
    /\ ~Inserted
    /\ Truthy(request.phonenumber)
    /\ \A c \in TouchedMembers(before, request) :
          IsPrimary(c) => c.phonenumber # request.phonenumber

\* C15: in a successful response the primary contact's own email is the
\* first of emails and its own phone the first of phoneNumbers, when it has
\* them, whatever the order the cluster's rows were returned in.
C15_PrimaryValuesFirst ==
    response.status = 200 =>
        LET primary == contacts[response.primaryContactId]
        IN  /\ Truthy(primary.email) =>
                  response.emails # <<>> /\ response.emails[1] = primary.email
            /\ Truthy(primary.phonenumber) =>
                  /\ response.phoneNumbers # <<>>
                  /\ response.phoneNumbers[1] = primary.phonenumber

\* ------------------------------------------------------------------ buildResponse alone
\* buildResponse applied to any list of up to MaxContacts rows, whatever the
\* precedence of each: the list is the table, read in either order.
MemberFields == [email : {NULL, "e1"}, phonenumber : {NULL, "p1"},
                 linkprecedence : {"primary", "secondary"}]

Memberships ==
    UNION {{[i \in 1..n |-> [id |-> i,
                             email |-> f[i].email,
                             phonenumber |-> f[i].phonenumber,
                             linkedid |-> NoId,
                             linkprecedence |-> f[i].linkprecedence,
                             createdat |-> i,
                             deleted |-> FALSE]] : f \in [1..n -> MemberFields]}
           : n \in 0..MaxContacts}

InitBuild ==
    /\ contacts \in Memberships
    /\ now = 0
    /\ before = <<>>
    /\ request = NoRequest
    /\ response = NoResponse
    /\ pc = [p \in Clients |-> "idle"]
    /\ local = [p \in Clients |-> NoLocal]
    /\ started = 0

\* const response = buildResponse(finalContacts), inside the handler's try
Build ==
    \E ord \in ScanOrders :
        /\ response = NoResponse
        /\ response' = BuildResponse(Scan(contacts, ord))
        /\ UNCHANGED <<contacts, now, before, request, concVars>>

NextBuild == Build

SpecBuild == InitBuild /\ [][NextBuild]_vars

C17_FrameOfARequest ==
    [][/\ Len(contacts') \in {Len(contacts), Len(contacts) + 1}
       /\ \A i \in Ids(contacts) :
             /\ contacts'[i].id = contacts[i].id
             /\ contacts'[i].email = contacts[i].email
             /\ contacts'[i].phonenumber = contacts[i].phonenumber
             /\ contacts'[i].createdat = contacts[i].createdat
             /\ contacts'[i].deleted = contacts[i].deleted]_vars

\* the last request rewrote the link of a row that has an email and a phone
C17_Witness ==
    \E i \in Ids(before) :
        /\ contacts[i].linkedid # before[i].linkedid
        /\ Truthy(before[i].email)
        /\ Truthy(before[i].phonenumber)

\* C18: two live contacts that share a non-null email or a non-null phone
\* have the same primary, and the values of the last request were found in
\* two clusters at most.
C18_SharedValueSharedCluster ==
    /\ \A c, d \in Live(contacts) :
          (SqlEq(c.email, d.email) \/ SqlEq(c.phonenumber, d.phonenumber)) =>
              PrimaryOf(c) = PrimaryOf(d)
    /\ Acted => Cardinality(Touched(before, request)) <= 2

\* C19: in every step of every interleaving a contact that is a secondary
\* stays a secondary, and a row that appears as a primary is the row inserted
\* by a request that found no match.
C19_DemotionIsOneWay ==
    [][/\ \A i \in Ids(contacts) :
             IsSecondary(contacts[i]) => IsSecondary(contacts'[i])
       /\ \A i \in Ids(contacts') \ Ids(contacts) :
             IsPrimary(contacts'[i]) =>
                 \E p \in Clients : pc[p] = "createPrimary" /\ pc'[p] = "done"]_vars

\* a request has just demoted a primary and has not yet re-pointed its
\* secondaries
C19_Witness ==
    \E p \in Clients :
        /\ pc[p] = "repoint"
        /\ IsSecondary(contacts[local[p].allPrimaryContacts[local[p].i].id])

====
